---- MODULE Spec2Model ----
(***************************************************************************)
(* Model of the mygeth core: the state-transition orchestrator             *)
(* (StateTransition, ApplyMessage, TransitionDb) and the opcode registry   *)
(* (core/vm/jump_table.go).                                                *)
(***************************************************************************)
EXTENDS Integers, Sequences, FiniteSets, TLC

(***************************************************************************)
(* Opcode registry: core/vm/jump_table.go                                  *)
(***************************************************************************)

\* Byte value of every opcode named by the registry (core/vm opcode
\* constants).
OpCode ==
  [ STOP |-> 0,
    ADD |-> 1,
    MUL |-> 2,
    SUB |-> 3,
    DIV |-> 4,
    SDIV |-> 5,
    MOD |-> 6,
    SMOD |-> 7,
    ADDMOD |-> 8,
    MULMOD |-> 9,
    EXP |-> 10,
    SIGNEXTEND |-> 11,
    LT |-> 16,
    GT |-> 17,
    SLT |-> 18,
    SGT |-> 19,
    EQ |-> 20,
    ISZERO |-> 21,
    AND |-> 22,
    XOR |-> 24,
    OR |-> 23,
    NOT |-> 25,
    BYTE |-> 26,
    SHA3 |-> 32,
    ADDRESS |-> 48,
    BALANCE |-> 49,
    ORIGIN |-> 50,
    CALLER |-> 51,
    CALLVALUE |-> 52,
    CALLDATALOAD |-> 53,
    CALLDATASIZE |-> 54,
    CALLDATACOPY |-> 55,
    CODESIZE |-> 56,
    CODECOPY |-> 57,
    EXTCODESIZE |-> 59,
    EXTCODECOPY |-> 60,
    BLOCKHASH |-> 64,
    COINBASE |-> 65,
    TIMESTAMP |-> 66,
    NUMBER |-> 67,
    DIFFICULTY |-> 68,
    POP |-> 80,
    MLOAD |-> 81,
    MSTORE |-> 82,
    MSTORE8 |-> 83,
    SLOAD |-> 84,
    SSTORE |-> 85,
    JUMP |-> 86,
    JUMPI |-> 87,
    PC |-> 88,
    MSIZE |-> 89,
    JUMPDEST |-> 91,
    PUSH1 |-> 96,
    PUSH2 |-> 97,
    PUSH3 |-> 98,
    PUSH4 |-> 99,
    PUSH5 |-> 100,
    PUSH6 |-> 101,
    PUSH7 |-> 102,
    PUSH8 |-> 103,
    PUSH9 |-> 104,
    PUSH10 |-> 105,
    PUSH11 |-> 106,
    PUSH12 |-> 107,
    PUSH13 |-> 108,
    PUSH14 |-> 109,
    PUSH15 |-> 110,
    PUSH16 |-> 111,
    PUSH17 |-> 112,
    PUSH18 |-> 113,
    PUSH19 |-> 114,
    PUSH20 |-> 115,
    PUSH21 |-> 116,
    PUSH22 |-> 117,
    PUSH23 |-> 118,
    PUSH24 |-> 119,
    PUSH25 |-> 120,
    PUSH26 |-> 121,
    PUSH27 |-> 122,
    PUSH28 |-> 123,
    PUSH29 |-> 124,
    PUSH30 |-> 125,
    PUSH31 |-> 126,
    PUSH32 |-> 127,
    DUP1 |-> 128,
    DUP2 |-> 129,
    DUP3 |-> 130,
    DUP4 |-> 131,
    DUP5 |-> 132,
    DUP6 |-> 133,
    DUP7 |-> 134,
    DUP8 |-> 135,
    DUP9 |-> 136,
    DUP10 |-> 137,
    DUP11 |-> 138,
    DUP12 |-> 139,
    DUP13 |-> 140,
    DUP14 |-> 141,
    DUP15 |-> 142,
    DUP16 |-> 143,
    SWAP1 |-> 144,
    SWAP2 |-> 145,
    SWAP3 |-> 146,
    SWAP4 |-> 147,
    SWAP5 |-> 148,
    SWAP6 |-> 149,
    SWAP7 |-> 150,
    SWAP8 |-> 151,
    SWAP9 |-> 152,
    SWAP10 |-> 153,
    SWAP11 |-> 154,
    SWAP12 |-> 155,
    SWAP13 |-> 156,
    SWAP14 |-> 157,
    SWAP15 |-> 158,
    SWAP16 |-> 159,
    LOG0 |-> 160,
    LOG1 |-> 161,
    LOG2 |-> 162,
    LOG3 |-> 163,
    LOG4 |-> 164,
    CREATE |-> 240,
    CALL |-> 241,
    CALLCODE |-> 242,
    RETURN |-> 243,
    SELFDESTRUCT |-> 255,
    DELEGATECALL |-> 244 ]

FrontierLiteral ==
  [ STOP |->
      [execute |-> "opStop", validateStack |-> "makeStackFunc(0, 0)", memorySize |-> "nil", halts |-> TRUE, jumps |-> FALSE, writes |-> FALSE, valid |-> TRUE, reverts |-> FALSE],
    ADD |->
      [execute |-> "opAdd", validateStack |-> "makeStackFunc(2, 1)", memorySize |-> "nil", halts |-> FALSE, jumps |-> FALSE, writes |-> FALSE, valid |-> TRUE, reverts |-> FALSE],
    MUL |->
      [execute |-> "opMul", validateStack |-> "makeStackFunc(2, 1)", memorySize |-> "nil", halts |-> FALSE, jumps |-> FALSE, writes |-> FALSE, valid |-> TRUE, reverts |-> FALSE],
    SUB |->
      [execute |-> "opSub", validateStack |-> "makeStackFunc(2, 1)", memorySize |-> "nil", halts |-> FALSE, jumps |-> FALSE, writes |-> FALSE, valid |-> TRUE, reverts |-> FALSE],
    DIV |->
      [execute |-> "opDiv", validateStack |-> "makeStackFunc(2, 1)", memorySize |-> "nil", halts |-> FALSE, jumps |-> FALSE, writes |-> FALSE, valid |-> TRUE, reverts |-> FALSE],
    SDIV |->
      [execute |-> "opSdiv", validateStack |-> "makeStackFunc(2, 1)", memorySize |-> "nil", halts |-> FALSE, jumps |-> FALSE, writes |-> FALSE, valid |-> TRUE, reverts |-> FALSE],
    MOD |->
      [execute |-> "opMod", validateStack |-> "makeStackFunc(2, 1)", memorySize |-> "nil", halts |-> FALSE, jumps |-> FALSE, writes |-> FALSE, valid |-> TRUE, reverts |-> FALSE],
    SMOD |->
      [execute |-> "opSmod", validateStack |-> "makeStackFunc(2, 1)", memorySize |-> "nil", halts |-> FALSE, jumps |-> FALSE, writes |-> FALSE, valid |-> TRUE, reverts |-> FALSE],
    ADDMOD |->
      [execute |-> "opAddmod", validateStack |-> "makeStackFunc(3, 1)", memorySize |-> "nil", halts |-> FALSE, jumps |-> FALSE, writes |-> FALSE, valid |-> TRUE, reverts |-> FALSE],
    MULMOD |->
      [execute |-> "opMulmod", validateStack |-> "makeStackFunc(3, 1)", memorySize |-> "nil", halts |-> FALSE, jumps |-> FALSE, writes |-> FALSE, valid |-> TRUE, reverts |-> FALSE],
    EXP |->
      [execute |-> "opExp", validateStack |-> "makeStackFunc(2, 1)", memorySize |-> "nil", halts |-> FALSE, jumps |-> FALSE, writes |-> FALSE, valid |-> TRUE, reverts |-> FALSE],
    SIGNEXTEND |->
      [execute |-> "opSignExtend", validateStack |-> "makeStackFunc(2, 1)", memorySize |-> "nil", halts |-> FALSE, jumps |-> FALSE, writes |-> FALSE, valid |-> TRUE, reverts |-> FALSE],
    LT |->
      [execute |-> "opLt", validateStack |-> "makeStackFunc(2, 1)", memorySize |-> "nil", halts |-> FALSE, jumps |-> FALSE, writes |-> FALSE, valid |-> TRUE, reverts |-> FALSE],
    GT |->
      [execute |-> "opGt", validateStack |-> "makeStackFunc(2, 1)", memorySize |-> "nil", halts |-> FALSE, jumps |-> FALSE, writes |-> FALSE, valid |-> TRUE, reverts |-> FALSE],
    SLT |->
      [execute |-> "opSlt", validateStack |-> "makeStackFunc(2, 1)", memorySize |-> "nil", halts |-> FALSE, jumps |-> FALSE, writes |-> FALSE, valid |-> TRUE, reverts |-> FALSE],
    SGT |->
      [execute |-> "opSgt", validateStack |-> "makeStackFunc(2, 1)", memorySize |-> "nil", halts |-> FALSE, jumps |-> FALSE, writes |-> FALSE, valid |-> TRUE, reverts |-> FALSE],
    EQ |->
      [execute |-> "opEq", validateStack |-> "makeStackFunc(2, 1)", memorySize |-> "nil", halts |-> FALSE, jumps |-> FALSE, writes |-> FALSE, valid |-> TRUE, reverts |-> FALSE],
    ISZERO |->
      [execute |-> "opIszero", validateStack |-> "makeStackFunc(1, 1)", memorySize |-> "nil", halts |-> FALSE, jumps |-> FALSE, writes |-> FALSE, valid |-> TRUE, reverts |-> FALSE],
    AND |->
      [execute |-> "opAnd", validateStack |-> "makeStackFunc(2, 1)", memorySize |-> "nil", halts |-> FALSE, jumps |-> FALSE, writes |-> FALSE, valid |-> TRUE, reverts |-> FALSE],
    XOR |->
      [execute |-> "opXor", validateStack |-> "makeStackFunc(2, 1)", memorySize |-> "nil", halts |-> FALSE, jumps |-> FALSE, writes |-> FALSE, valid |-> TRUE, reverts |-> FALSE],
    OR |->
      [execute |-> "opOr", validateStack |-> "makeStackFunc(2, 1)", memorySize |-> "nil", halts |-> FALSE, jumps |-> FALSE, writes |-> FALSE, valid |-> TRUE, reverts |-> FALSE],
    NOT |->
      [execute |-> "opNot", validateStack |-> "makeStackFunc(1, 1)", memorySize |-> "nil", halts |-> FALSE, jumps |-> FALSE, writes |-> FALSE, valid |-> TRUE, reverts |-> FALSE],
    BYTE |->
      [execute |-> "opByte", validateStack |-> "makeStackFunc(2, 1)", memorySize |-> "nil", halts |-> FALSE, jumps |-> FALSE, writes |-> FALSE, valid |-> TRUE, reverts |-> FALSE],
    SHA3 |->
      [execute |-> "opSha3", validateStack |-> "makeStackFunc(2, 1)", memorySize |-> "memorySha3", halts |-> FALSE, jumps |-> FALSE, writes |-> FALSE, valid |-> TRUE, reverts |-> FALSE],
    ADDRESS |->
      [execute |-> "opAddress", validateStack |-> "makeStackFunc(0, 1)", memorySize |-> "nil", halts |-> FALSE, jumps |-> FALSE, writes |-> FALSE, valid |-> TRUE, reverts |-> FALSE],
    BALANCE |->
      [execute |-> "opBalance", validateStack |-> "makeStackFunc(1, 1)", memorySize |-> "nil", halts |-> FALSE, jumps |-> FALSE, writes |-> FALSE, valid |-> TRUE, reverts |-> FALSE],
    ORIGIN |->
      [execute |-> "opOrigin", validateStack |-> "makeStackFunc(0, 1)", memorySize |-> "nil", halts |-> FALSE, jumps |-> FALSE, writes |-> FALSE, valid |-> TRUE, reverts |-> FALSE],
    CALLER |->
      [execute |-> "opCaller", validateStack |-> "makeStackFunc(0, 1)", memorySize |-> "nil", halts |-> FALSE, jumps |-> FALSE, writes |-> FALSE, valid |-> TRUE, reverts |-> FALSE],
    CALLVALUE |->
      [execute |-> "opCallValue", validateStack |-> "makeStackFunc(0, 1)", memorySize |-> "nil", halts |-> FALSE, jumps |-> FALSE, writes |-> FALSE, valid |-> TRUE, reverts |-> FALSE],
    CALLDATALOAD |->
      [execute |-> "opCalldataLoad", validateStack |-> "makeStackFunc(1, 1)", memorySize |-> "nil", halts |-> FALSE, jumps |-> FALSE, writes |-> FALSE, valid |-> TRUE, reverts |-> FALSE],
    CALLDATASIZE |->
      [execute |-> "opCalldataSize", validateStack |-> "makeStackFunc(0, 1)", memorySize |-> "nil", halts |-> FALSE, jumps |-> FALSE, writes |-> FALSE, valid |-> TRUE, reverts |-> FALSE],
    CALLDATACOPY |->
      [execute |-> "opCalldataCopy", validateStack |-> "makeStackFunc(3, 0)", memorySize |-> "memoryCalldataCopy", halts |-> FALSE, jumps |-> FALSE, writes |-> FALSE, valid |-> TRUE, reverts |-> FALSE],
    CODESIZE |->
      [execute |-> "opCodeSize", validateStack |-> "makeStackFunc(0, 1)", memorySize |-> "nil", halts |-> FALSE, jumps |-> FALSE, writes |-> FALSE, valid |-> TRUE, reverts |-> FALSE],
    CODECOPY |->
      [execute |-> "opCodeCopy", validateStack |-> "makeStackFunc(3, 0)", memorySize |-> "memoryCodeCopy", halts |-> FALSE, jumps |-> FALSE, writes |-> FALSE, valid |-> TRUE, reverts |-> FALSE],
    EXTCODESIZE |->
      [execute |-> "opExtCodeSize", validateStack |-> "makeStackFunc(1, 1)", memorySize |-> "nil", halts |-> FALSE, jumps |-> FALSE, writes |-> FALSE, valid |-> TRUE, reverts |-> FALSE],
    EXTCODECOPY |->
      [execute |-> "opExtCodeCopy", validateStack |-> "makeStackFunc(4, 0)", memorySize |-> "memoryExtCodeCopy", halts |-> FALSE, jumps |-> FALSE, writes |-> FALSE, valid |-> TRUE, reverts |-> FALSE],
    BLOCKHASH |->
      [execute |-> "opBlockhash", validateStack |-> "makeStackFunc(1, 1)", memorySize |-> "nil", halts |-> FALSE, jumps |-> FALSE, writes |-> FALSE, valid |-> TRUE, reverts |-> FALSE],
    COINBASE |->
      [execute |-> "opCoinbase", validateStack |-> "makeStackFunc(0, 1)", memorySize |-> "nil", halts |-> FALSE, jumps |-> FALSE, writes |-> FALSE, valid |-> TRUE, reverts |-> FALSE],
    TIMESTAMP |->
      [execute |-> "opTimestamp", validateStack |-> "makeStackFunc(0, 1)", memorySize |-> "nil", halts |-> FALSE, jumps |-> FALSE, writes |-> FALSE, valid |-> TRUE, reverts |-> FALSE],
    NUMBER |->
      [execute |-> "opNumber", validateStack |-> "makeStackFunc(0, 1)", memorySize |-> "nil", halts |-> FALSE, jumps |-> FALSE, writes |-> FALSE, valid |-> TRUE, reverts |-> FALSE],
    DIFFICULTY |->
      [execute |-> "opDifficulty", validateStack |-> "makeStackFunc(0, 1)", memorySize |-> "nil", halts |-> FALSE, jumps |-> FALSE, writes |-> FALSE, valid |-> TRUE, reverts |-> FALSE],
    POP |->
      [execute |-> "opPop", validateStack |-> "makeStackFunc(1, 0)", memorySize |-> "nil", halts |-> FALSE, jumps |-> FALSE, writes |-> FALSE, valid |-> TRUE, reverts |-> FALSE],
    MLOAD |->
      [execute |-> "opMload", validateStack |-> "makeStackFunc(1, 1)", memorySize |-> "memoryMLoad", halts |-> FALSE, jumps |-> FALSE, writes |-> FALSE, valid |-> TRUE, reverts |-> FALSE],
    MSTORE |->
      [execute |-> "opMstore", validateStack |-> "makeStackFunc(2, 0)", memorySize |-> "memoryMStore", halts |-> FALSE, jumps |-> FALSE, writes |-> FALSE, valid |-> TRUE, reverts |-> FALSE],
    MSTORE8 |->
      [execute |-> "opMstore8", validateStack |-> "makeStackFunc(2, 0)", memorySize |-> "memoryMStore8", halts |-> FALSE, jumps |-> FALSE, writes |-> FALSE, valid |-> TRUE, reverts |-> FALSE],
    SLOAD |->
      [execute |-> "opSload", validateStack |-> "makeStackFunc(1, 1)", memorySize |-> "nil", halts |-> FALSE, jumps |-> FALSE, writes |-> FALSE, valid |-> TRUE, reverts |-> FALSE],
    SSTORE |->
      [execute |-> "opSstore", validateStack |-> "makeStackFunc(2, 0)", memorySize |-> "nil", halts |-> FALSE, jumps |-> FALSE, writes |-> TRUE, valid |-> TRUE, reverts |-> FALSE],
    JUMP |->
      [execute |-> "opJump", validateStack |-> "makeStackFunc(1, 0)", memorySize |-> "nil", halts |-> FALSE, jumps |-> TRUE, writes |-> FALSE, valid |-> TRUE, reverts |-> FALSE],
    JUMPI |->
      [execute |-> "opJumpi", validateStack |-> "makeStackFunc(2, 0)", memorySize |-> "nil", halts |-> FALSE, jumps |-> TRUE, writes |-> FALSE, valid |-> TRUE, reverts |-> FALSE],
    PC |->
      [execute |-> "opPc", validateStack |-> "makeStackFunc(0, 1)", memorySize |-> "nil", halts |-> FALSE, jumps |-> FALSE, writes |-> FALSE, valid |-> TRUE, reverts |-> FALSE],
    MSIZE |->
      [execute |-> "opMsize", validateStack |-> "makeStackFunc(0, 1)", memorySize |-> "nil", halts |-> FALSE, jumps |-> FALSE, writes |-> FALSE, valid |-> TRUE, reverts |-> FALSE],
    JUMPDEST |->
      [execute |-> "opJumpdest", validateStack |-> "makeStackFunc(0, 0)", memorySize |-> "nil", halts |-> FALSE, jumps |-> FALSE, writes |-> FALSE, valid |-> TRUE, reverts |-> FALSE],
    PUSH1 |->
      [execute |-> "makePush(1, 1)", validateStack |-> "makeStackFunc(0, 1)", memorySize |-> "nil", halts |-> FALSE, jumps |-> FALSE, writes |-> FALSE, valid |-> TRUE, reverts |-> FALSE],
    PUSH2 |->
      [execute |-> "makePush(2, 2)", validateStack |-> "makeStackFunc(0, 1)", memorySize |-> "nil", halts |-> FALSE, jumps |-> FALSE, writes |-> FALSE, valid |-> TRUE, reverts |-> FALSE],
    PUSH3 |->
      [execute |-> "makePush(3, 3)", validateStack |-> "makeStackFunc(0, 1)", memorySize |-> "nil", halts |-> FALSE, jumps |-> FALSE, writes |-> FALSE, valid |-> TRUE, reverts |-> FALSE],
    PUSH4 |->
      [execute |-> "makePush(4, 4)", validateStack |-> "makeStackFunc(0, 1)", memorySize |-> "nil", halts |-> FALSE, jumps |-> FALSE, writes |-> FALSE, valid |-> TRUE, reverts |-> FALSE],
    PUSH5 |->
      [execute |-> "makePush(5, 5)", validateStack |-> "makeStackFunc(0, 1)", memorySize |-> "nil", halts |-> FALSE, jumps |-> FALSE, writes |-> FALSE, valid |-> TRUE, reverts |-> FALSE],
    PUSH6 |->
      [execute |-> "makePush(6, 6)", validateStack |-> "makeStackFunc(0, 1)", memorySize |-> "nil", halts |-> FALSE, jumps |-> FALSE, writes |-> FALSE, valid |-> TRUE, reverts |-> FALSE],
    PUSH7 |->
      [execute |-> "makePush(7, 7)", validateStack |-> "makeStackFunc(0, 1)", memorySize |-> "nil", halts |-> FALSE, jumps |-> FALSE, writes |-> FALSE, valid |-> TRUE, reverts |-> FALSE],
    PUSH8 |->
      [execute |-> "makePush(8, 8)", validateStack |-> "makeStackFunc(0, 1)", memorySize |-> "nil", halts |-> FALSE, jumps |-> FALSE, writes |-> FALSE, valid |-> TRUE, reverts |-> FALSE],
    PUSH9 |->
      [execute |-> "makePush(9, 9)", validateStack |-> "makeStackFunc(0, 1)", memorySize |-> "nil", halts |-> FALSE, jumps |-> FALSE, writes |-> FALSE, valid |-> TRUE, reverts |-> FALSE],
    PUSH10 |->
      [execute |-> "makePush(10, 10)", validateStack |-> "makeStackFunc(0, 1)", memorySize |-> "nil", halts |-> FALSE, jumps |-> FALSE, writes |-> FALSE, valid |-> TRUE, reverts |-> FALSE],
    PUSH11 |->
      [execute |-> "makePush(11, 11)", validateStack |-> "makeStackFunc(0, 1)", memorySize |-> "nil", halts |-> FALSE, jumps |-> FALSE, writes |-> FALSE, valid |-> TRUE, reverts |-> FALSE],
    PUSH12 |->
      [execute |-> "makePush(12, 12)", validateStack |-> "makeStackFunc(0, 1)", memorySize |-> "nil", halts |-> FALSE, jumps |-> FALSE, writes |-> FALSE, valid |-> TRUE, reverts |-> FALSE],
    PUSH13 |->
      [execute |-> "makePush(13, 13)", validateStack |-> "makeStackFunc(0, 1)", memorySize |-> "nil", halts |-> FALSE, jumps |-> FALSE, writes |-> FALSE, valid |-> TRUE, reverts |-> FALSE],
    PUSH14 |->
      [execute |-> "makePush(14, 14)", validateStack |-> "makeStackFunc(0, 1)", memorySize |-> "nil", halts |-> FALSE, jumps |-> FALSE, writes |-> FALSE, valid |-> TRUE, reverts |-> FALSE],
    PUSH15 |->
      [execute |-> "makePush(15, 15)", validateStack |-> "makeStackFunc(0, 1)", memorySize |-> "nil", halts |-> FALSE, jumps |-> FALSE, writes |-> FALSE, valid |-> TRUE, reverts |-> FALSE],
    PUSH16 |->
      [execute |-> "makePush(16, 16)", validateStack |-> "makeStackFunc(0, 1)", memorySize |-> "nil", halts |-> FALSE, jumps |-> FALSE, writes |-> FALSE, valid |-> TRUE, reverts |-> FALSE],
    PUSH17 |->
      [execute |-> "makePush(17, 17)", validateStack |-> "makeStackFunc(0, 1)", memorySize |-> "nil", halts |-> FALSE, jumps |-> FALSE, writes |-> FALSE, valid |-> TRUE, reverts |-> FALSE],
    PUSH18 |->
      [execute |-> "makePush(18, 18)", validateStack |-> "makeStackFunc(0, 1)", memorySize |-> "nil", halts |-> FALSE, jumps |-> FALSE, writes |-> FALSE, valid |-> TRUE, reverts |-> FALSE],
    PUSH19 |->
      [execute |-> "makePush(19, 19)", validateStack |-> "makeStackFunc(0, 1)", memorySize |-> "nil", halts |-> FALSE, jumps |-> FALSE, writes |-> FALSE, valid |-> TRUE, reverts |-> FALSE],
    PUSH20 |->
      [execute |-> "makePush(20, 20)", validateStack |-> "makeStackFunc(0, 1)", memorySize |-> "nil", halts |-> FALSE, jumps |-> FALSE, writes |-> FALSE, valid |-> TRUE, reverts |-> FALSE],
    PUSH21 |->
      [execute |-> "makePush(21, 21)", validateStack |-> "makeStackFunc(0, 1)", memorySize |-> "nil", halts |-> FALSE, jumps |-> FALSE, writes |-> FALSE, valid |-> TRUE, reverts |-> FALSE],
    PUSH22 |->
      [execute |-> "makePush(22, 22)", validateStack |-> "makeStackFunc(0, 1)", memorySize |-> "nil", halts |-> FALSE, jumps |-> FALSE, writes |-> FALSE, valid |-> TRUE, reverts |-> FALSE],
    PUSH23 |->
      [execute |-> "makePush(23, 23)", validateStack |-> "makeStackFunc(0, 1)", memorySize |-> "nil", halts |-> FALSE, jumps |-> FALSE, writes |-> FALSE, valid |-> TRUE, reverts |-> FALSE],
    PUSH24 |->
      [execute |-> "makePush(24, 24)", validateStack |-> "makeStackFunc(0, 1)", memorySize |-> "nil", halts |-> FALSE, jumps |-> FALSE, writes |-> FALSE, valid |-> TRUE, reverts |-> FALSE],
    PUSH25 |->
      [execute |-> "makePush(25, 25)", validateStack |-> "makeStackFunc(0, 1)", memorySize |-> "nil", halts |-> FALSE, jumps |-> FALSE, writes |-> FALSE, valid |-> TRUE, reverts |-> FALSE],
    PUSH26 |->
      [execute |-> "makePush(26, 26)", validateStack |-> "makeStackFunc(0, 1)", memorySize |-> "nil", halts |-> FALSE, jumps |-> FALSE, writes |-> FALSE, valid |-> TRUE, reverts |-> FALSE],
    PUSH27 |->
      [execute |-> "makePush(27, 27)", validateStack |-> "makeStackFunc(0, 1)", memorySize |-> "nil", halts |-> FALSE, jumps |-> FALSE, writes |-> FALSE, valid |-> TRUE, reverts |-> FALSE],
    PUSH28 |->
      [execute |-> "makePush(28, 28)", validateStack |-> "makeStackFunc(0, 1)", memorySize |-> "nil", halts |-> FALSE, jumps |-> FALSE, writes |-> FALSE, valid |-> TRUE, reverts |-> FALSE],
    PUSH29 |->
      [execute |-> "makePush(29, 29)", validateStack |-> "makeStackFunc(0, 1)", memorySize |-> "nil", halts |-> FALSE, jumps |-> FALSE, writes |-> FALSE, valid |-> TRUE, reverts |-> FALSE],
    PUSH30 |->
      [execute |-> "makePush(30, 30)", validateStack |-> "makeStackFunc(0, 1)", memorySize |-> "nil", halts |-> FALSE, jumps |-> FALSE, writes |-> FALSE, valid |-> TRUE, reverts |-> FALSE],
    PUSH31 |->
      [execute |-> "makePush(31, 31)", validateStack |-> "makeStackFunc(0, 1)", memorySize |-> "nil", halts |-> FALSE, jumps |-> FALSE, writes |-> FALSE, valid |-> TRUE, reverts |-> FALSE],
    PUSH32 |->
      [execute |-> "makePush(32, 32)", validateStack |-> "makeStackFunc(0, 1)", memorySize |-> "nil", halts |-> FALSE, jumps |-> FALSE, writes |-> FALSE, valid |-> TRUE, reverts |-> FALSE],
    DUP1 |->
      [execute |-> "makeDup(1)", validateStack |-> "makeDupStackFunc(1)", memorySize |-> "nil", halts |-> FALSE, jumps |-> FALSE, writes |-> FALSE, valid |-> TRUE, reverts |-> FALSE],
    DUP2 |->
      [execute |-> "makeDup(2)", validateStack |-> "makeDupStackFunc(2)", memorySize |-> "nil", halts |-> FALSE, jumps |-> FALSE, writes |-> FALSE, valid |-> TRUE, reverts |-> FALSE],
    DUP3 |->
      [execute |-> "makeDup(3)", validateStack |-> "makeDupStackFunc(3)", memorySize |-> "nil", halts |-> FALSE, jumps |-> FALSE, writes |-> FALSE, valid |-> TRUE, reverts |-> FALSE],
    DUP4 |->
      [execute |-> "makeDup(4)", validateStack |-> "makeDupStackFunc(4)", memorySize |-> "nil", halts |-> FALSE, jumps |-> FALSE, writes |-> FALSE, valid |-> TRUE, reverts |-> FALSE],
    DUP5 |->
      [execute |-> "makeDup(5)", validateStack |-> "makeDupStackFunc(5)", memorySize |-> "nil", halts |-> FALSE, jumps |-> FALSE, writes |-> FALSE, valid |-> TRUE, reverts |-> FALSE],
    DUP6 |->
      [execute |-> "makeDup(6)", validateStack |-> "makeDupStackFunc(6)", memorySize |-> "nil", halts |-> FALSE, jumps |-> FALSE, writes |-> FALSE, valid |-> TRUE, reverts |-> FALSE],
    DUP7 |->
      [execute |-> "makeDup(7)", validateStack |-> "makeDupStackFunc(7)", memorySize |-> "nil", halts |-> FALSE, jumps |-> FALSE, writes |-> FALSE, valid |-> TRUE, reverts |-> FALSE],
    DUP8 |->
      [execute |-> "makeDup(8)", validateStack |-> "makeDupStackFunc(8)", memorySize |-> "nil", halts |-> FALSE, jumps |-> FALSE, writes |-> FALSE, valid |-> TRUE, reverts |-> FALSE],
    DUP9 |->
      [execute |-> "makeDup(9)", validateStack |-> "makeDupStackFunc(9)", memorySize |-> "nil", halts |-> FALSE, jumps |-> FALSE, writes |-> FALSE, valid |-> TRUE, reverts |-> FALSE],
    DUP10 |->
      [execute |-> "makeDup(10)", validateStack |-> "makeDupStackFunc(10)", memorySize |-> "nil", halts |-> FALSE, jumps |-> FALSE, writes |-> FALSE, valid |-> TRUE, reverts |-> FALSE],
    DUP11 |->
      [execute |-> "makeDup(11)", validateStack |-> "makeDupStackFunc(11)", memorySize |-> "nil", halts |-> FALSE, jumps |-> FALSE, writes |-> FALSE, valid |-> TRUE, reverts |-> FALSE],
    DUP12 |->
      [execute |-> "makeDup(12)", validateStack |-> "makeDupStackFunc(12)", memorySize |-> "nil", halts |-> FALSE, jumps |-> FALSE, writes |-> FALSE, valid |-> TRUE, reverts |-> FALSE],
    DUP13 |->
      [execute |-> "makeDup(13)", validateStack |-> "makeDupStackFunc(13)", memorySize |-> "nil", halts |-> FALSE, jumps |-> FALSE, writes |-> FALSE, valid |-> TRUE, reverts |-> FALSE],
    DUP14 |->
      [execute |-> "makeDup(14)", validateStack |-> "makeDupStackFunc(14)", memorySize |-> "nil", halts |-> FALSE, jumps |-> FALSE, writes |-> FALSE, valid |-> TRUE, reverts |-> FALSE],
    DUP15 |->
      [execute |-> "makeDup(15)", validateStack |-> "makeDupStackFunc(15)", memorySize |-> "nil", halts |-> FALSE, jumps |-> FALSE, writes |-> FALSE, valid |-> TRUE, reverts |-> FALSE],
    DUP16 |->
      [execute |-> "makeDup(16)", validateStack |-> "makeDupStackFunc(16)", memorySize |-> "nil", halts |-> FALSE, jumps |-> FALSE, writes |-> FALSE, valid |-> TRUE, reverts |-> FALSE],
    SWAP1 |->
      [execute |-> "makeSwap(1)", validateStack |-> "makeSwapStackFunc(2)", memorySize |-> "nil", halts |-> FALSE, jumps |-> FALSE, writes |-> FALSE, valid |-> TRUE, reverts |-> FALSE],
    SWAP2 |->
      [execute |-> "makeSwap(2)", validateStack |-> "makeSwapStackFunc(3)", memorySize |-> "nil", halts |-> FALSE, jumps |-> FALSE, writes |-> FALSE, valid |-> TRUE, reverts |-> FALSE],
    SWAP3 |->
      [execute |-> "makeSwap(3)", validateStack |-> "makeSwapStackFunc(4)", memorySize |-> "nil", halts |-> FALSE, jumps |-> FALSE, writes |-> FALSE, valid |-> TRUE, reverts |-> FALSE],
    SWAP4 |->
      [execute |-> "makeSwap(4)", validateStack |-> "makeSwapStackFunc(5)", memorySize |-> "nil", halts |-> FALSE, jumps |-> FALSE, writes |-> FALSE, valid |-> TRUE, reverts |-> FALSE],
    SWAP5 |->
      [execute |-> "makeSwap(5)", validateStack |-> "makeSwapStackFunc(6)", memorySize |-> "nil", halts |-> FALSE, jumps |-> FALSE, writes |-> FALSE, valid |-> TRUE, reverts |-> FALSE],
    SWAP6 |->
      [execute |-> "makeSwap(6)", validateStack |-> "makeSwapStackFunc(7)", memorySize |-> "nil", halts |-> FALSE, jumps |-> FALSE, writes |-> FALSE, valid |-> TRUE, reverts |-> FALSE],
    SWAP7 |->
      [execute |-> "makeSwap(7)", validateStack |-> "makeSwapStackFunc(8)", memorySize |-> "nil", halts |-> FALSE, jumps |-> FALSE, writes |-> FALSE, valid |-> TRUE, reverts |-> FALSE],
    SWAP8 |->
      [execute |-> "makeSwap(8)", validateStack |-> "makeSwapStackFunc(9)", memorySize |-> "nil", halts |-> FALSE, jumps |-> FALSE, writes |-> FALSE, valid |-> TRUE, reverts |-> FALSE],
    SWAP9 |->
      [execute |-> "makeSwap(9)", validateStack |-> "makeSwapStackFunc(10)", memorySize |-> "nil", halts |-> FALSE, jumps |-> FALSE, writes |-> FALSE, valid |-> TRUE, reverts |-> FALSE],
    SWAP10 |->
      [execute |-> "makeSwap(10)", validateStack |-> "makeSwapStackFunc(11)", memorySize |-> "nil", halts |-> FALSE, jumps |-> FALSE, writes |-> FALSE, valid |-> TRUE, reverts |-> FALSE],
    SWAP11 |->
      [execute |-> "makeSwap(11)", validateStack |-> "makeSwapStackFunc(12)", memorySize |-> "nil", halts |-> FALSE, jumps |-> FALSE, writes |-> FALSE, valid |-> TRUE, reverts |-> FALSE],
    SWAP12 |->
      [execute |-> "makeSwap(12)", validateStack |-> "makeSwapStackFunc(13)", memorySize |-> "nil", halts |-> FALSE, jumps |-> FALSE, writes |-> FALSE, valid |-> TRUE, reverts |-> FALSE],
    SWAP13 |->
      [execute |-> "makeSwap(13)", validateStack |-> "makeSwapStackFunc(14)", memorySize |-> "nil", halts |-> FALSE, jumps |-> FALSE, writes |-> FALSE, valid |-> TRUE, reverts |-> FALSE],
    SWAP14 |->
      [execute |-> "makeSwap(14)", validateStack |-> "makeSwapStackFunc(15)", memorySize |-> "nil", halts |-> FALSE, jumps |-> FALSE, writes |-> FALSE, valid |-> TRUE, reverts |-> FALSE],
    SWAP15 |->
      [execute |-> "makeSwap(15)", validateStack |-> "makeSwapStackFunc(16)", memorySize |-> "nil", halts |-> FALSE, jumps |-> FALSE, writes |-> FALSE, valid |-> TRUE, reverts |-> FALSE],
    SWAP16 |->
      [execute |-> "makeSwap(16)", validateStack |-> "makeSwapStackFunc(17)", memorySize |-> "nil", halts |-> FALSE, jumps |-> FALSE, writes |-> FALSE, valid |-> TRUE, reverts |-> FALSE],
    LOG0 |->
      [execute |-> "makeLog(0)", validateStack |-> "makeStackFunc(2, 0)", memorySize |-> "memoryLog", halts |-> FALSE, jumps |-> FALSE, writes |-> FALSE, valid |-> TRUE, reverts |-> FALSE],
    LOG1 |->
      [execute |-> "makeLog(1)", validateStack |-> "makeStackFunc(3, 0)", memorySize |-> "memoryLog", halts |-> FALSE, jumps |-> FALSE, writes |-> FALSE, valid |-> TRUE, reverts |-> FALSE],
    LOG2 |->
      [execute |-> "makeLog(2)", validateStack |-> "makeStackFunc(4, 0)", memorySize |-> "memoryLog", halts |-> FALSE, jumps |-> FALSE, writes |-> FALSE, valid |-> TRUE, reverts |-> FALSE],
    LOG3 |->
      [execute |-> "makeLog(3)", validateStack |-> "makeStackFunc(5, 0)", memorySize |-> "memoryLog", halts |-> FALSE, jumps |-> FALSE, writes |-> FALSE, valid |-> TRUE, reverts |-> FALSE],
    LOG4 |->
      [execute |-> "makeLog(4)", validateStack |-> "makeStackFunc(6, 0)", memorySize |-> "memoryLog", halts |-> FALSE, jumps |-> FALSE, writes |-> FALSE, valid |-> TRUE, reverts |-> FALSE],
    CREATE |->
      [execute |-> "opCreate", validateStack |-> "makeStackFunc(3, 1)", memorySize |-> "memoryCreate", halts |-> FALSE, jumps |-> FALSE, writes |-> TRUE, valid |-> TRUE, reverts |-> FALSE],
    CALL |->
      [execute |-> "opCall", validateStack |-> "makeStackFunc(7, 1)", memorySize |-> "memoryCall", halts |-> FALSE, jumps |-> FALSE, writes |-> FALSE, valid |-> TRUE, reverts |-> FALSE],
    CALLCODE |->
      [execute |-> "opCallCode", validateStack |-> "makeStackFunc(7, 1)", memorySize |-> "memoryCall", halts |-> FALSE, jumps |-> FALSE, writes |-> FALSE, valid |-> TRUE, reverts |-> FALSE],
    RETURN |->
      [execute |-> "opReturn", validateStack |-> "makeStackFunc(2, 0)", memorySize |-> "memoryReturn", halts |-> TRUE, jumps |-> FALSE, writes |-> FALSE, valid |-> TRUE, reverts |-> FALSE],
    SELFDESTRUCT |->
      [execute |-> "opSuicide", validateStack |-> "makeStackFunc(1, 0)", memorySize |-> "nil", halts |-> TRUE, jumps |-> FALSE, writes |-> TRUE, valid |-> TRUE, reverts |-> FALSE] ]

\* The zero value of the Go struct `operation`.
ZeroOperation ==
  [execute |-> "nil", validateStack |-> "nil", memorySize |-> "nil",
   halts |-> FALSE, jumps |-> FALSE, writes |-> FALSE, valid |-> FALSE,
   reverts |-> FALSE]

\* The 256 indices of an instruction set.
OpIndex == 0..255

\* A Go keyed array literal [256]operation{...}: the keyed entries, and the
\* zero value at every index that is not a key.
KeyedArray(lit) ==
  [i \in OpIndex |->
     IF \E n \in DOMAIN lit : OpCode[n] = i
       THEN lit[CHOOSE n \in DOMAIN lit : OpCode[n] = i]
       ELSE ZeroOperation]

NewFrontierInstructionSet_NoJumpFlag ==
  KeyedArray([FrontierLiteral EXCEPT !.JUMP.jumps = FALSE])

NewFrontierInstructionSet_ReturnReverts ==
  KeyedArray([FrontierLiteral EXCEPT !.RETURN.reverts = TRUE])

NewFrontierInstructionSet_NoValid ==
  KeyedArray([FrontierLiteral EXCEPT !.JUMPDEST.valid = FALSE])

NewFrontierInstructionSet == KeyedArray(FrontierLiteral)

\* The entry NewHomesteadInstructionSet assigns at DELEGATECALL.
DelegateCallOperation ==
  [execute |-> "opDelegateCall", validateStack |-> "makeStackFunc(6, 1)",
   memorySize |-> "memoryDelegateCall", halts |-> FALSE, jumps |-> FALSE,
   writes |-> FALSE, valid |-> TRUE, reverts |-> FALSE]

NewHomesteadInstructionSet_WrongIndex ==
  [NewFrontierInstructionSet EXCEPT ![OpCode.CALLCODE] = DelegateCallOperation]

NewHomesteadInstructionSet ==
  [NewFrontierInstructionSet EXCEPT ![OpCode.DELEGATECALL] = DelegateCallOperation]

(***************************************************************************)
(* Bounds of the model                                                     *)
(***************************************************************************)

\* Largest balance an account holds in an initial world state and largest
\* value a message transfers.
MaxBalance == 1
\* Largest nonce an account holds in an initial world state and largest
\* nonce a message declares.
MaxNonce == 1
\* Number of messages applied one after the other.
MaxMsgs == 1
\* Amount of the block gas pool handed to the transitions.
MaxGas == 3
\* Length of the bytecode a call frame runs.
MaxCodeLen == 2

\* The addresses of the world state, and the absent recipient (To() == nil).
Address == {1, 2}
NilAddress == 0

\* Byte strings: the nil slice, an empty payload and non-empty data.
NilBytes == "nil"
EmptyBytes == ""
Payloads == {EmptyBytes, "0x6001"}
ReturnData == {NilBytes, "0x2a"}


(***************************************************************************)
(* World state capability (vm.StateDB)                                     *)
(***************************************************************************)

\* An address without an account.
NoAccount ==
  [exist |-> FALSE, nonce |-> 0, balance |-> 0, code |-> FALSE, storage |-> 0]

Exist(s, a) == s[a].exist

GetNonce(s, a) == s[a].nonce

SetNonce(s, a, n) == [s EXCEPT ![a].exist = TRUE, ![a].nonce = n]

GetBalance(s, a) == s[a].balance

\* A new account: zero balance, zero nonce, no code, empty storage.
CreateAccount(s, a) ==
  [s EXCEPT ![a] = [exist |-> TRUE, nonce |-> 0, balance |-> 0,
                    code |-> FALSE, storage |-> 0]]

SubBalance(s, a, v) == [s EXCEPT ![a].exist = TRUE, ![a].balance = @ - v]

AddBalance(s, a, v) == [s EXCEPT ![a].exist = TRUE, ![a].balance = @ + v]

(***************************************************************************)
(* Errors                                                                  *)
(***************************************************************************)

NoError == "nil"
ErrInsufficientBalance == "insufficient balance for transfer"
ErrInvalidNonce == "invalid nonce"
\* VM errors other than insufficient balance.
VMFaults == {"out of gas", "invalid opcode"}

(***************************************************************************)
(* State                                                                   *)
(***************************************************************************)

VARIABLES
  frontierInstructionSet,   \* package variable of core/vm
  homesteadInstructionSet,  \* package variable of core/vm
  vminit,                   \* position of the package initialisation of core/vm
  fetched,                  \* <<fork, opcode, descriptor>> last read from a table
  frame,                    \* the call frame of the execution loop
  state,                    \* the world state behind st.state
  gp,                       \* remaining amount of the block gas pool st.gp
  st,                       \* the StateTransition of the running call
  pc,                       \* position inside ApplyMessage
  pre,                      \* world state when ApplyMessage was entered
  calls,                    \* capability calls made by the running transition
  ret,                      \* ret of the dispatched execution
  vmerr,                    \* vmerr of the dispatched execution
  result,                   \* (ret, failed, err) returned by ApplyMessage
  nmsgs                     \* messages applied so far

vmvars == <<frontierInstructionSet, homesteadInstructionSet, vminit, fetched,
           frame>>
corevars == <<state, gp, st, pc, pre, calls, ret, vmerr, result, nmsgs>>
vars == <<frontierInstructionSet, homesteadInstructionSet, vminit, fetched,
          frame,
          state, gp, st, pc, pre, calls, ret, vmerr, result, nmsgs>>

\* The messages a caller may submit.
Message ==
  [from : Address, to : Address \cup {NilAddress}, value : 0..MaxBalance,
   nonce : 0..MaxNonce, checkNonce : BOOLEAN, data : Payloads]

NoMessage ==
  [from |-> NilAddress, to |-> NilAddress, value |-> 0, nonce |-> 0,
   checkNonce |-> FALSE, data |-> NilBytes]

NoResult == [ret |-> NilBytes, failed |-> FALSE, err |-> "none yet"]

\* An entry of the log of capability calls.
CallRec(op, a, d, v) == [op |-> op, addr |-> a, data |-> d, value |-> v]

\* The accounts of the world states a first transition may start from: no
\* account, or an account that is new or used, poor or funded, with or
\* without code.
InitialAccounts ==
  {NoAccount} \cup
  [exist : {TRUE}, nonce : {0, MaxNonce}, balance : {0, MaxBalance},
   code : BOOLEAN, storage : {0}]


(***************************************************************************)
(* StateTransition: from, to, preCheck, TransitionDb                       *)
(***************************************************************************)

NewStateTransition_NoData(m) == [msg |-> m, value |-> m.value, data |-> NilBytes]

\* NewStateTransition: the fields taken from the message.
NewStateTransition(m) == [msg |-> m, value |-> m.value, data |-> m.data]

\* StateTransition.from: the world state after materialising the sender.
from(s, m) == IF ~Exist(s, m.from) THEN CreateAccount(s, m.from) ELSE s

\* The capability calls StateTransition.from makes that change the state.
fromCalls(s, m) ==
  IF ~Exist(s, m.from) THEN <<CallRec("CreateAccount", m.from, NilBytes, 0)>>
  ELSE <<>>

to_Always(s, m) == IF m.to = NilAddress THEN s ELSE CreateAccount(s, m.to)

\* StateTransition.to: the world state after resolving the recipient.
to(s, m) ==
  IF m.to = NilAddress THEN s
  ELSE IF ~Exist(s, m.to) THEN CreateAccount(s, m.to) ELSE s

\* The capability calls StateTransition.to makes that change the state.
toCalls(s, m) ==
  IF m.to # NilAddress /\ ~Exist(s, m.to)
    THEN <<CallRec("CreateAccount", m.to, NilBytes, 0)>>
    ELSE <<>>

preCheckRejects_Always(s, m) == GetNonce(s, m.from) # m.nonce

preCheckRejects_Inverted(s, m) ==
  m.checkNonce /\ GetNonce(s, m.from) = m.nonce

\* StateTransition.preCheck returns an error (s: the state after from()).
preCheckRejects(s, m) ==
  m.checkNonce /\ GetNonce(s, m.from) # m.nonce

contractCreation_Never(m) == FALSE

\* contractCreation := st.msg.To() == nil
contractCreation(m) == m.to = NilAddress

incrementedNonce_Same(s, a) == GetNonce(s, a)

incrementedNonce_Twice(s, a) == GetNonce(s, a) + 2

\* st.state.GetNonce(sender.Address())+1.  The addition is in uint64; the
\* nonces of the model stay at most MaxNonce + MaxMsgs, far from 2^64.
incrementedNonce(s, a) == GetNonce(s, a) + 1

classify_FlagFatal(r, e) ==
  IF e # NoError /\ e = ErrInsufficientBalance
    THEN [ret |-> NilBytes, failed |-> TRUE, err |-> e]
    ELSE [ret |-> r, failed |-> e # NoError, err |-> NoError]

\* The outcome classification at the end of TransitionDb.
classify(r, e) ==
  IF e # NoError /\ e = ErrInsufficientBalance
    THEN [ret |-> NilBytes, failed |-> FALSE, err |-> e]
    ELSE [ret |-> r, failed |-> e # NoError, err |-> NoError]

(***************************************************************************)
(* EVM capability (vm.EVM): Call and Create                                *)
(***************************************************************************)

CanTransfer(s, a, v) == GetBalance(s, a) >= v

Transfer(s, sender, recipient, v) ==
  AddBalance(SubBalance(s, sender, v), recipient, v)

\* The outcomes <<ret, err, state>> of running code at address a from state s
\* with snapshot snap: success (with or without a storage write), or a fault
\* that reverts to the snapshot.
Run(s, snap, a) ==
  {<<r, NoError, s2>> :
     r \in ReturnData, s2 \in {s, [s EXCEPT ![a].storage = 1]}}
  \cup {<<r, e, snap>> : r \in ReturnData, e \in VMFaults}

\* The outcomes <<ret, err, state>> of evm.Call(caller, addr, input, value).
Call(s, caller, addr, input, v) ==
  IF ~CanTransfer(s, caller, v) THEN {<<NilBytes, ErrInsufficientBalance, s>>}
  ELSE LET s1 == IF ~Exist(s, addr) THEN CreateAccount(s, addr) ELSE s
           s2 == Transfer(s1, caller, addr, v)
       IN  IF ~s2[addr].code THEN {<<NilBytes, NoError, s2>>}
           ELSE Run(s2, s, addr)

\* The outcomes <<ret, err, state>> of evm.Create(caller, code, value).
Create(s, caller, code, v) ==
  IF ~CanTransfer(s, caller, v) THEN {<<NilBytes, ErrInsufficientBalance, s>>}
  ELSE LET s1 == SetNonce(s, caller, GetNonce(s, caller) + 1)
           fresh == {c \in Address : ~Exist(s1, c)}
       IN  IF fresh = {} THEN {<<NilBytes, e, s1>> : e \in VMFaults}
           ELSE UNION {
             LET s2 == Transfer(CreateAccount(s1, c), caller, c, v)
             IN  {<<code, NoError, [s2 EXCEPT ![c].code = TRUE]>>}
                 \cup {<<NilBytes, e, s1>> : e \in VMFaults}
             : c \in fresh}

(***************************************************************************)
(* Actions of the orchestrator                                             *)
(***************************************************************************)

\* ApplyMessage: NewStateTransition, then TransitionDb is entered.
ApplyMessage(m) ==
  /\ pc = "idle"
  /\ nmsgs < MaxMsgs
  /\ st' = NewStateTransition(m)
  /\ pre' = state
  /\ calls' = <<>>
  /\ ret' = NilBytes
  /\ vmerr' = NoError
  /\ result' = NoResult
  /\ nmsgs' = nmsgs + 1
  /\ pc' = "preCheck"
  /\ UNCHANGED <<state, gp>>

\* TransitionDb: st.preCheck() and its early return.
PreCheck ==
  /\ pc = "preCheck"
  /\ state' = from(state, st.msg)
  /\ calls' = calls \o fromCalls(state, st.msg)
  /\ IF preCheckRejects(state', st.msg)
       THEN /\ result' = [ret |-> NilBytes, failed |-> FALSE,
                          err |-> ErrInvalidNonce]
            /\ pc' = "done"
       ELSE /\ pc' = "dispatch"
            /\ UNCHANGED result
  /\ UNCHANGED <<gp, st, pre, ret, vmerr, nmsgs>>

\* TransitionDb: sender := st.from(), the branch on contractCreation, and on
\* the call path the nonce increment and the evaluation of st.to().
Dispatch ==
  /\ pc = "dispatch"
  /\ LET s1 == from(state, st.msg)
         c1 == calls \o fromCalls(state, st.msg)
     IN  IF contractCreation(st.msg)
           THEN /\ state' = s1
                /\ calls' = c1
                /\ pc' = "create"
           ELSE LET n  == incrementedNonce(s1, st.msg.from)
                    s2 == SetNonce(s1, st.msg.from, n)
                IN  /\ state' = to(s2, st.msg)
                    /\ calls' = c1 \o <<CallRec("SetNonce", st.msg.from, NilBytes, n)>>
                                   \o toCalls(s2, st.msg)
                    /\ pc' = "call"
  /\ UNCHANGED <<gp, st, pre, ret, vmerr, result, nmsgs>>

\* ret, _, vmerr = evm.Create(sender, st.data, st.value)
EvmCreate ==
  /\ pc = "create"
  /\ \E o \in Create(state, st.msg.from, st.data, st.value) :
       /\ ret' = o[1]
       /\ vmerr' = o[2]
       /\ state' = o[3]
  /\ calls' = Append(calls, CallRec("Create", st.msg.from, st.data, st.value))
  /\ pc' = "classify"
  /\ UNCHANGED <<gp, st, pre, result, nmsgs>>

\* ret, vmerr = evm.Call(sender, st.to().Address(), st.data, st.value)
EvmCall ==
  /\ pc = "call"
  /\ \E o \in Call(state, st.msg.from, st.msg.to, st.data, st.value) :
       /\ ret' = o[1]
       /\ vmerr' = o[2]
       /\ state' = o[3]
  /\ calls' = Append(calls, CallRec("Call", st.msg.to, st.data, st.value))
  /\ pc' = "classify"
  /\ UNCHANGED <<gp, st, pre, result, nmsgs>>

\* TransitionDb: the test of vmerr and the return.
Classify ==
  /\ pc = "classify"
  /\ result' = classify(ret, vmerr)
  /\ pc' = "done"
  /\ UNCHANGED <<state, gp, st, pre, calls, ret, vmerr, nmsgs>>

\* ApplyMessage has returned: the transition object and the locals are gone,
\* the world state and the gas pool stay with the caller, who may submit the
\* next message.
Return ==
  /\ pc = "done"
  /\ pc' = "idle"
  /\ st' = NewStateTransition(NoMessage)
  /\ pre' = state
  /\ calls' = <<>>
  /\ ret' = NilBytes
  /\ vmerr' = NoError
  /\ result' = NoResult
  /\ UNCHANGED <<state, gp, nmsgs>>

(***************************************************************************)
(* Package initialisation of core/vm and the lookup of a descriptor        *)
(***************************************************************************)

ZeroTable == [i \in OpIndex |-> ZeroOperation]

\* frontierInstructionSet = NewFrontierInstructionSet()
InitFrontier ==
  /\ vminit = "start"
  /\ frontierInstructionSet' = NewFrontierInstructionSet
  /\ vminit' = "frontier"
  /\ UNCHANGED <<homesteadInstructionSet, fetched, frame>>

\* homesteadInstructionSet = NewHomesteadInstructionSet()
InitHomestead ==
  /\ vminit = "frontier"
  /\ homesteadInstructionSet' = NewHomesteadInstructionSet
  /\ vminit' = "done"
  /\ UNCHANGED <<frontierInstructionSet, fetched, frame>>

\* No descriptor is being executed.
NoFetch == <<"none", 0, ZeroOperation>>

Forks == {"frontier", "homestead"}

\* No call frame is running.
NoFrame ==
  [fork |-> "none", readOnly |-> FALSE, pc |-> 0, status |-> "None",
   phase |-> "fetch", prev |-> 0, afterOp |-> 0]

\* A call frame starts at pc 0 under the table of the given fork.
StartFrame(fork, ro) ==
  /\ vminit = "done"
  /\ frame.status # "Running"
  /\ fetched = NoFetch
  /\ frame' = [fork |-> fork, readOnly |-> ro, pc |-> 0, status |-> "Running",
               phase |-> "fetch", prev |-> 0, afterOp |-> 0]
  /\ UNCHANGED <<frontierInstructionSet, homesteadInstructionSet, vminit,
                 fetched>>

\* The execution loop reads the descriptor of an opcode from the table of
\* the fork in force.
Lookup(fork, op) ==
  /\ vminit = "done"
  /\ fetched = NoFetch
  /\ frame.status = "Running"
  /\ frame.phase = "fetch"
  /\ frame.fork = fork
  /\ frame.pc < MaxCodeLen
  /\ fetched' = <<fork, op,
                  IF fork = "homestead" THEN homesteadInstructionSet[op]
                  ELSE frontierInstructionSet[op]>>
  /\ UNCHANGED <<frontierInstructionSet, homesteadInstructionSet, vminit,
                 frame>>

\* pc beyond the bytecode is an implicit STOP.
ImplicitStop ==
  /\ vminit = "done"
  /\ fetched = NoFetch
  /\ frame.status = "Running"
  /\ frame.phase = "fetch"
  /\ frame.pc >= MaxCodeLen
  /\ frame' = [frame EXCEPT !.status = "Halted"]
  /\ UNCHANGED <<frontierInstructionSet, homesteadInstructionSet, vminit,
                 fetched>>

\* Encoded width of an opcode: a push-N carries N bytes of immediate operand.
Width(op) ==
  IF op \in OpCode.PUSH1..OpCode.PUSH32 THEN 2 + (op - OpCode.PUSH1) ELSE 1

\* pc after the loop has handled an executed operation: an operation with the
\* jumps flag has set pc itself, otherwise pc moves past the opcode.
AdvancePc(d, op, afterOp) == IF d.jumps THEN afterOp ELSE afterOp + Width(op)

\* The state of the frame after an executed operation.
StatusAfter(d) ==
  IF d.halts THEN (IF d.reverts THEN "Reverted" ELSE "Halted") ELSE "Running"

\* One step of the execution loop on the descriptor read: an invalid opcode,
\* a failed stack validation or gas charge, a write in a read-only context
\* fault the frame; otherwise the operation executes (an operation with the
\* jumps flag sets pc to a destination inside the code), pc is advanced and
\* the halts flag ends the frame.
Execute ==
  /\ vminit = "done"
  /\ fetched # NoFetch
  /\ frame.phase = "fetch"
  /\ LET op == fetched[2]
         d  == fetched[3]
     IN  \/ /\ ~d.valid \/ (d.writes /\ frame.readOnly)
            /\ frame' = [frame EXCEPT !.status = "Faulted", !.phase = "faulted",
                                      !.prev = frame.pc, !.afterOp = frame.pc]
         \/ /\ d.valid
            /\ frame' = [frame EXCEPT !.status = "Faulted", !.phase = "faulted",
                                      !.prev = frame.pc, !.afterOp = frame.pc]
         \/ /\ d.valid /\ ~(d.writes /\ frame.readOnly)
            /\ \E t \in 0..MaxCodeLen - 1 :
                 LET afterOp == IF d.jumps THEN t ELSE frame.pc
                 IN  frame' = [frame EXCEPT !.status = StatusAfter(d),
                                            !.phase = "executed",
                                            !.prev = frame.pc,
                                            !.afterOp = afterOp,
                                            !.pc = AdvancePc(d, op, afterOp)]
  /\ UNCHANGED <<frontierInstructionSet, homesteadInstructionSet, vminit,
                 fetched>>

\* The step of the execution loop that read the descriptor is over.
StepDone ==
  /\ vminit = "done"
  /\ fetched # NoFetch
  /\ frame.phase # "fetch"
  /\ fetched' = NoFetch
  /\ frame' = [frame EXCEPT !.phase = "fetch", !.prev = 0, !.afterOp = 0]
  /\ UNCHANGED <<frontierInstructionSet, homesteadInstructionSet, vminit>>


(***************************************************************************)
(* Specifications                                                          *)
(***************************************************************************)

CoreInit ==
  /\ state \in [Address -> InitialAccounts]
  /\ gp = MaxGas
  /\ st = NewStateTransition(NoMessage)
  /\ pc = "idle"
  /\ pre = state
  /\ calls = <<>>
  /\ ret = NilBytes
  /\ vmerr = NoError
  /\ result = NoResult
  /\ nmsgs = 0

VmInit ==
  /\ frontierInstructionSet = ZeroTable
  /\ homesteadInstructionSet = ZeroTable
  /\ vminit = "start"
  /\ fetched = NoFetch
  /\ frame = NoFrame

\* The registry is no part of the specification of the orchestrator: its
\* variables hold no table there.
NoTable == <<>>

VmAbsent ==
  /\ frontierInstructionSet = NoTable
  /\ homesteadInstructionSet = NoTable
  /\ vminit = "absent"
  /\ fetched = <<>>
  /\ frame = <<>>

Init == CoreInit /\ VmAbsent

Next ==
  \/ \E m \in Message : ApplyMessage(m) /\ UNCHANGED vmvars
  \/ PreCheck /\ UNCHANGED vmvars
  \/ Dispatch /\ UNCHANGED vmvars
  \/ EvmCreate /\ UNCHANGED vmvars
  \/ EvmCall /\ UNCHANGED vmvars
  \/ Classify /\ UNCHANGED vmvars
  \/ Return /\ UNCHANGED vmvars

Spec == Init /\ [][Next]_vars

\* The opcode registry; no message is applied.
TableInit ==
  /\ VmInit
  /\ state = [a \in Address |-> NoAccount]
  /\ gp = MaxGas
  /\ st = NewStateTransition(NoMessage)
  /\ pc = "idle"
  /\ pre = state
  /\ calls = <<>>
  /\ ret = NilBytes
  /\ vmerr = NoError
  /\ result = NoResult
  /\ nmsgs = 0

TableNext ==
  \/ InitFrontier /\ UNCHANGED corevars
  \/ InitHomestead /\ UNCHANGED corevars
  \/ \E f \in Forks, ro \in BOOLEAN : StartFrame(f, ro) /\ UNCHANGED corevars
  \/ \E f \in Forks, op \in OpIndex : Lookup(f, op) /\ UNCHANGED corevars
  \/ ImplicitStop /\ UNCHANGED corevars
  \/ Execute /\ UNCHANGED corevars
  \/ StepDone /\ UNCHANGED corevars

TableSpec == TableInit /\ [][TableNext]_vars

(***************************************************************************)
(* Properties                                                              *)
(***************************************************************************)

\* ApplyMessage has returned.
Returned == pc = "done"

\* The pre-check rejected the message.
Rejected == Returned /\ result.err = ErrInvalidNonce

\* The capability calls of kind op made by the running transition.
CallsOf(op) == {i \in DOMAIN calls : calls[i].op = op}

\* An execution was dispatched and ApplyMessage has returned.
Dispatched == Returned /\ (CallsOf("Create") \cup CallsOf("Call")) # {}

\* Sum of all balances of a world state.
RECURSIVE SumBalances(_, _)
SumBalances(s, as) ==
  IF as = {} THEN 0
  ELSE LET a == CHOOSE x \in as : TRUE
       IN  s[a].balance + SumBalances(s, as \ {a})

\* C1: a nonce-checked message whose declared nonce differs from the
\* sender's current nonce is answered with an error and leaves the world
\* state as it was before the call, also when the sender has no account.
C1_NonceMismatchLeavesStateUnchanged ==
  (Returned /\ st.msg.checkNonce /\ st.msg.nonce # GetNonce(pre, st.msg.from))
    => (result.err # NoError /\ state = pre)

\* C2: a call message that passes the pre-check leaves the sender's nonce
\* at its old value plus 1, whatever the call returns; a message rejected
\* by the pre-check leaves the sender's nonce as it was.
C2_NonceIncrementedOnceOnCall ==
  Returned =>
    /\ Rejected => GetNonce(state, st.msg.from) = GetNonce(pre, st.msg.from)
    /\ (~Rejected /\ st.msg.to # NilAddress)
         => GetNonce(state, st.msg.from) = GetNonce(pre, st.msg.from) + 1

C2_Witness ==
  /\ Returned
  /\ st.msg.to # NilAddress
  /\ vmerr \in VMFaults
  /\ GetNonce(state, st.msg.from) = GetNonce(pre, st.msg.from) + 1

\* C3: after a dispatch the result is (ret, false, nil) when the execution
\* returned no error, (ret, true, nil) when it returned a VM error other
\* than insufficient balance, and (nil, false, err) when it returned the
\* insufficient-balance error; failed and a non-nil error never go together.
C3_OutcomeClassification ==
  /\ Dispatched =>
       /\ vmerr = NoError
            => result = [ret |-> ret, failed |-> FALSE, err |-> NoError]
       /\ vmerr \notin {NoError, ErrInsufficientBalance}
            => result = [ret |-> ret, failed |-> TRUE, err |-> NoError]
       /\ vmerr = ErrInsufficientBalance
            => result = [ret |-> NilBytes, failed |-> FALSE,
                         err |-> ErrInsufficientBalance]
  /\ Returned => ~(result.failed /\ result.err # NoError)

C3_Witness ==
  /\ Dispatched
  /\ vmerr \in VMFaults
  /\ ret # NilBytes
  /\ result = [ret |-> ret, failed |-> TRUE, err |-> NoError]

\* C4: when ApplyMessage returns the insufficient-balance error the world
\* state is the one before the call: nothing transferred, no account
\* created, the sender's nonce not incremented.
C4_InsufficientBalanceLeavesStateUnchanged ==
  (Returned /\ result.err = ErrInsufficientBalance) => state = pre

\* The case of C5: a nonce-checked call with matching nonce, an affordable
\* value, an empty payload and a recipient without account.
C5_Case ==
  /\ st.msg.checkNonce
  /\ st.msg.nonce = GetNonce(pre, st.msg.from)
  /\ st.msg.to # NilAddress
  /\ st.msg.value <= GetBalance(pre, st.msg.from)
  /\ st.msg.data = EmptyBytes
  /\ ~Exist(pre, st.msg.to)

\* C5: a plain transfer to a fresh recipient returns (nil, false, nil),
\* creates the recipient, moves exactly the value from the sender to the
\* recipient, conserves the sum of the balances and increments the sender's
\* nonce by 1.
C5_TransferToFreshRecipient ==
  (Returned /\ C5_Case) =>
    /\ result = [ret |-> NilBytes, failed |-> FALSE, err |-> NoError]
    /\ Exist(state, st.msg.to)
    /\ GetBalance(state, st.msg.from)
         = GetBalance(pre, st.msg.from) - st.msg.value
    /\ GetBalance(state, st.msg.to)
         = GetBalance(pre, st.msg.to) + st.msg.value
    /\ SumBalances(state, Address) = SumBalances(pre, Address)
    /\ GetNonce(state, st.msg.from) = GetNonce(pre, st.msg.from) + 1

C5_Witness ==
  /\ Returned
  /\ C5_Case
  /\ st.msg.value > 0
  /\ GetBalance(state, st.msg.to) = st.msg.value

\* What holds of every message without a recipient: no call path, no nonce
\* set by the orchestrator, no account materialised but the sender's.
C6_CreationFrame ==
  /\ CallsOf("Call") = {}
  /\ CallsOf("SetNonce") = {}
  /\ \A i \in CallsOf("CreateAccount") : calls[i].addr = st.msg.from

\* The creation path was invoked exactly once, with the payload of the
\* message as init code and the value of the message.
C6_CreatedOnce ==
  /\ Cardinality(CallsOf("Create")) = 1
  /\ \A i \in CallsOf("Create") :
       calls[i] = CallRec("Create", st.msg.from, st.msg.data, st.msg.value)

\* C6 as stated: every message without a recipient invokes the creation
\* path exactly once with its payload and value, never the call path, sets
\* no nonce itself and materialises no recipient.
C6_EveryCreationMessageDispatched ==
  (Returned /\ st.msg.to = NilAddress) => (C6_CreatedOnce /\ C6_CreationFrame)

\* C6 amended: every message without a recipient that passes the pre-check
\* invokes the creation path exactly once with its payload and value; every
\* message without a recipient, rejected or not, never invokes the call
\* path, sets no nonce itself and materialises no recipient, and a rejected
\* one invokes no creation.
C6_CreationMessageDispatchedAfterPreCheck ==
  (Returned /\ st.msg.to = NilAddress) =>
    /\ C6_CreationFrame
    /\ ~Rejected => C6_CreatedOnce
    /\ Rejected => CallsOf("Create") = {}

C6_Witness ==
  /\ Returned
  /\ st.msg.to = NilAddress
  /\ ~Rejected
  /\ st.msg.data # EmptyBytes
  /\ st.msg.value > 0
  /\ C6_CreatedOnce

\* C7: the Homestead table equals the Frontier table at every index but
\* DELEGATECALL, which is not valid in Frontier and a valid descriptor in
\* Homestead; what is valid in Frontier is valid and the same in Homestead;
\* building the Homestead table leaves the Frontier table as built.
C7_HomesteadExtendsFrontier ==
  vminit = "done" =>
    /\ frontierInstructionSet = NewFrontierInstructionSet
    /\ \A i \in OpIndex \ {OpCode.DELEGATECALL} :
         homesteadInstructionSet[i] = frontierInstructionSet[i]
    /\ ~frontierInstructionSet[OpCode.DELEGATECALL].valid
    /\ homesteadInstructionSet[OpCode.DELEGATECALL].valid
    /\ homesteadInstructionSet[OpCode.DELEGATECALL].execute # "nil"
    /\ \A i \in OpIndex :
         frontierInstructionSet[i].valid
           => /\ homesteadInstructionSet[i].valid
              /\ homesteadInstructionSet[i] = frontierInstructionSet[i]

C7_Witness ==
  /\ vminit = "done"
  /\ fetched = <<"homestead", OpCode.DELEGATECALL, DelegateCallOperation>>
  /\ frontierInstructionSet[OpCode.DELEGATECALL] = ZeroOperation

\* The execution was dispatched without any debit of the gas pool.
C8_Undebited == gp = MaxGas /\ CallsOf("SubGas") = {}

\* C8: the gas pool is debited before the execution is dispatched and never
\* becomes negative.
C8_PoolDebitedBeforeDispatch ==
  /\ gp >= 0
  /\ pc \in {"create", "call", "classify"} => ~C8_Undebited

\* A descriptor is the zero descriptor or a populated one.
ZeroOrPopulated(op) ==
  \/ op = ZeroOperation
  \/ op.valid /\ op.execute # "nil" /\ op.validateStack # "nil"

\* C10: in both tables every entry is the zero descriptor or a populated
\* descriptor with valid set, an execute function and a stack validator; no
\* entry, and so no descriptor the loop reads, has an execute function
\* while valid is not set.
C10_ZeroOrPopulatedDescriptors ==
  /\ \A i \in OpIndex :
       /\ ZeroOrPopulated(frontierInstructionSet[i])
       /\ ZeroOrPopulated(homesteadInstructionSet[i])
       /\ ~frontierInstructionSet[i].valid
            => frontierInstructionSet[i].execute = "nil"
       /\ ~homesteadInstructionSet[i].valid
            => homesteadInstructionSet[i].execute = "nil"
  /\ ZeroOrPopulated(fetched[3])
  /\ ~fetched[3].valid => fetched[3].execute = "nil"

C10_Witness ==
  /\ vminit = "done"
  /\ fetched[1] = "frontier"
  /\ fetched[2] = OpCode.JUMPDEST
  /\ fetched[3].valid
  /\ fetched[3].execute = "opJumpdest"
  /\ frontierInstructionSet[OpCode.JUMPDEST + 1] = ZeroOperation

\* C12: on the call path the nonce increment is committed after the
\* pre-check and before the call path is invoked: up to the dispatch the
\* sender's nonce is the old one, and in the state in which the call path
\* checks the balance it is the old one plus 1, the call path not yet
\* invoked.
C12_NonceCommittedBeforeBalanceCheck ==
  /\ pc = "dispatch"
       => /\ GetNonce(state, st.msg.from) = GetNonce(pre, st.msg.from)
          /\ CallsOf("SetNonce") = {}
  /\ pc = "call"
       => /\ GetNonce(state, st.msg.from) = GetNonce(pre, st.msg.from) + 1
          /\ Cardinality(CallsOf("SetNonce")) = 1
          /\ CallsOf("Call") = {}
  /\ (Returned /\ st.msg.to # NilAddress
        /\ result.err = ErrInsufficientBalance)
       => GetNonce(state, st.msg.from) = GetNonce(pre, st.msg.from) + 1

C12_Witness ==
  /\ pc = "call"
  /\ ~CanTransfer(state, st.msg.from, st.value)
  /\ GetNonce(state, st.msg.from) = GetNonce(pre, st.msg.from) + 1

\* The orchestrator is at work: the dispatched execution has not run yet.
C13_BeforeExecution == pc \in {"dispatch", "create", "call"}

\* C13: the orchestrator creates an account only for an address without
\* one, and at most once per address, also when sender and recipient are
\* the same; the balance and the nonce of an account that existed are not
\* reset (the nonce is the old one, plus 1 for the sender of a call); an
\* absent sender is created with zero balance and zero nonce.
C13_CreateAccountOnlyForAbsent ==
  /\ \A i \in CallsOf("CreateAccount") :
       /\ ~Exist(pre, calls[i].addr)
       /\ \A j \in CallsOf("CreateAccount") :
            calls[j].addr = calls[i].addr => j = i
  /\ C13_BeforeExecution =>
       \A a \in Address :
         /\ Exist(state, a)
              <=> (Exist(pre, a)
                     \/ \E i \in CallsOf("CreateAccount") : calls[i].addr = a)
         /\ GetBalance(state, a) = GetBalance(pre, a)
         /\ GetNonce(state, a) =
              GetNonce(pre, a)
                + (IF pc = "call" /\ a = st.msg.from THEN 1 ELSE 0)
  /\ (pc = "dispatch" /\ ~Exist(pre, st.msg.from))
       => /\ Exist(state, st.msg.from)
          /\ GetBalance(state, st.msg.from) = 0
          /\ GetNonce(state, st.msg.from) = 0

C13_Witness ==
  /\ pc = "call"
  /\ st.msg.to = st.msg.from
  /\ ~Exist(pre, st.msg.from)
  /\ Cardinality(CallsOf("CreateAccount")) = 1
  /\ GetNonce(state, st.msg.from) = 1

\* C14: a message without nonce checking is never rejected by the
\* pre-check, whatever its declared nonce; it is dispatched, and on the call
\* path the sender's stored nonce is its stored value plus 1.
C14_UncheckedNonceNeverRejected ==
  (Returned /\ ~st.msg.checkNonce) =>
    /\ ~Rejected
    /\ Dispatched
    /\ st.msg.to # NilAddress
         => GetNonce(state, st.msg.from) = GetNonce(pre, st.msg.from) + 1

C14_Witness ==
  /\ Returned
  /\ ~st.msg.checkNonce
  /\ st.msg.to # NilAddress
  /\ st.msg.nonce # GetNonce(pre, st.msg.from)
  /\ GetNonce(state, st.msg.from) = GetNonce(pre, st.msg.from) + 1
  /\ GetNonce(state, st.msg.from) # st.msg.nonce + 1

\* Both tables are built.
TablesBuilt == vminit = "done"

\* The operation read has executed without a fault.
Executed == frame.phase = "executed"

\* C11: the jumps flag is set for JUMP and JUMPI and nothing else in both
\* tables; after an operation with the flag has executed, pc is the value
\* the operation set, also when that is the pc it started from; after any
\* other executed operation the loop has moved pc past the opcode.
C11_JumpsFlagLeavesPcToOperation ==
  /\ TablesBuilt =>
       \A i \in OpIndex :
         /\ frontierInstructionSet[i].jumps
              <=> i \in {OpCode.JUMP, OpCode.JUMPI}
         /\ homesteadInstructionSet[i].jumps
              <=> i \in {OpCode.JUMP, OpCode.JUMPI}
  /\ (Executed /\ fetched[3].jumps) => frame.pc = frame.afterOp
  /\ (Executed /\ ~fetched[3].jumps)
       => /\ frame.afterOp = frame.prev
          /\ frame.pc = frame.prev + Width(fetched[2])
          /\ frame.pc > frame.prev

C11_Witness ==
  /\ Executed
  /\ fetched[2] = OpCode.JUMP
  /\ fetched[3].jumps
  /\ frame.prev = 1
  /\ frame.pc = frame.prev

\* C15: in both tables halts is set for exactly STOP, RETURN and
\* SELFDESTRUCT, writes for exactly SSTORE, CREATE and SELFDESTRUCT, and
\* reverts for no descriptor; no frame is ever Reverted, and an executed
\* operation with the halts flag ends the frame as Halted.
C15_HaltsWritesRevertsFlags ==
  /\ TablesBuilt =>
       \A i \in OpIndex :
         \A d \in {frontierInstructionSet[i], homesteadInstructionSet[i]} :
           /\ d.halts
                <=> i \in {OpCode.STOP, OpCode.RETURN, OpCode.SELFDESTRUCT}
           /\ d.writes
                <=> i \in {OpCode.SSTORE, OpCode.CREATE, OpCode.SELFDESTRUCT}
           /\ ~d.reverts
  /\ frame.status # "Reverted"
  /\ (Executed /\ fetched[3].halts) => frame.status = "Halted"

C15_Witness ==
  /\ Executed
  /\ fetched[1] = "homestead"
  /\ fetched[2] = OpCode.SELFDESTRUCT
  /\ ~frame.readOnly
  /\ frame.status = "Halted"
====
